---------------------------- MODULE Spec2Model ----------------------------
(***************************************************************************)
(* A model of the drug-shortage prediction pipeline of                     *)
(* ml_shortage_prediction.py (class DrugShortagePredictor): the event      *)
(* tables the loader returns, the label construction                       *)
(* (create_target_variable), the feature construction (engineer_features), *)
(* the preparation and training steps and the scoring step                 *)
(* (predict_shortage_risk), a scoring call that shares the predictor with  *)
(* a retraining, and the scripts that pull the two tables from the API     *)
(* into the CSV files and the database (pull_drug_shortage_data.py,        *)
(* pull_drug_enforcement_data.py, drug_data_utils.py).                     *)
(*                                                                         *)
(* Dates are whole days counted from 2020-01-01 (the epoch of              *)
(* days_since_epoch): the tables hold SQL DATE values, which pandas turns  *)
(* into midnight timestamps, so every difference is a whole number of      *)
(* days.  A missing date (NaT) and a missing number (NaN) are the number   *)
(* NaT.  Ratios (means, rates) are kept as exact fractions num/den.        *)
(***************************************************************************)
EXTENDS Integers, Sequences, FiniteSets

VARIABLES
    shortage_df,      \* rows of drug_shortage_data, in the loader's order
    enforcement_df,   \* rows of drug_enforcement_data, in the loader's order
    target_df,        \* LabeledObservations (create_target_variable)
    features_df,      \* FeatureVectors (engineer_features)
    X,                \* the model input matrix (prepare_for_modeling)
    y,                \* the target column as integers
    label_encoders,   \* column -> classes_ of its fitted LabelEncoder
    scaler,           \* the StandardScaler: fitted or not, and on what
    test_split,       \* X_test_scaled, X_test, y_test: the sizes of the split
    models,           \* the fitted classifiers by name
    fit_log,          \* the classifiers whose fit the last train_models called
    predictions,      \* what the last predict_shortage_risk call returned
    pred_df,          \* the pred_df frame of that call
    pred_features,    \* the rows that call handed to predict_proba
    proba_call,       \* the model that call used, and whether it scaled the rows
    call_args,        \* the arguments of that call and the clock it read
    scoring,          \* a predict_shortage_risk call of another thread: how far
                      \* it is, the model it chose and the encoders it used
    pc,               \* how far the pipeline has run
    ingest_args,      \* get_drug_shortage_data / get_drug_enforcement_data: the
                      \* arguments of the call and the table as it found it
    ingest_at,        \* how far that call has run, or where it raised
    requests,         \* the requests it has sent to the API, in order
    total,            \* meta.results.total of the first response
    records,          \* the records fetched so far
    csv_file,         \* the CSV file: written or not, and its rows
    prepared_df,      \* the frame handed to insert_data_to_database
    db_table,         \* the committed rows of the database table
    db_conn           \* the connection load_data_to_database opened

modelVars == <<X, y, label_encoders, scaler, test_split, models, fit_log>>

predictVars == <<predictions, pred_df, pred_features, proba_call, call_args,
                 scoring>>

ingestVars == <<ingest_args, ingest_at, requests, total, records, csv_file,
                prepared_df, db_table, db_conn>>

vars == <<shortage_df, enforcement_df, target_df, features_df, modelVars,
          predictVars, pc, ingestVars>>

(***************************************************************************)
(* Values                                                                  *)
(***************************************************************************)
NULL == "<null>"          \* SQL NULL / None / NaN
NONE == <<"none">>        \* attribute not set yet (Python None)

\* pd.to_datetime of a NULL date, and NaN in a column of numbers: a number
\* of its own that is less than, greater than and equal to nothing else
NaT == -2147483647

\* a < b on Timestamps and floats: False when either side is missing
Less(a, b) == a # NaT /\ b # NaT /\ a < b

\* a - b and a + b: missing when either side is
Minus(a, b) == IF a = NaT \/ b = NaT THEN NaT ELSE a - b
Plus(a, b)  == IF a = NaT \/ b = NaT THEN NaT ELSE a + b

\* Strings are atoms for TLC; Chars gives the characters of the names used.
Chars(s) ==
    CASE s = "Heparin" -> <<"H", "e", "p", "a", "r", "i", "n">>
      [] s = "Zinc Tablet" -> <<"Z", "i", "n", "c", " ", "T", "a", "b", "l", "e", "t">>
      [] s = "Teva Pharmaceuticals" -> <<"T", "e", "v", "a", " ", "P", "h", "a", "r", "m", "a", "c", "e", "u", "t", "i", "c", "a", "l", "s">>
      [] s = "Baxter" -> <<"B", "a", "x", "t", "e", "r">>
      [] s = "TEVA PHARMACEUTICALS USA" -> <<"T", "E", "V", "A", " ", "P", "H", "A", "R", "M", "A", "C", "E", "U", "T", "I", "C", "A", "L", "S", " ", "U", "S", "A">>
      [] s = "Baxter Healthcare" -> <<"B", "a", "x", "t", "e", "r", " ", "H", "e", "a", "l", "t", "h", "c", "a", "r", "e">>
      [] s = "Unknown" -> <<"U", "n", "k", "n", "o", "w", "n">>
      [] s = "0" -> <<"0">>
      [] s = "Hematology" -> <<"H","e","m","a","t","o","l","o","g","y">>
      [] s = "Other" -> <<"O", "t", "h", "e", "r">>
      [] s = "B. Braun Medical" -> <<"B", ".", " ", "B", "r", "a", "u", "n", " ", "M", "e", "d", "i", "c", "a", "l">>
      [] s = "B. BRAUN MEDICAL INC" -> <<"B", ".", " ", "B", "R", "A", "U", "N", " ", "M", "E", "D", "I", "C", "A", "L", " ", "I", "N", "C">>
      [] s = "B, Braun Medical" -> <<"B", ",", " ", "B", "r", "a", "u", "n", " ", "M", "e", "d", "i", "c", "a", "l">>
      [] OTHER -> << >>

\* the code point of a character
CharCode(c) ==
    CASE c = " " -> 32
      [] c = "0" -> 48
      [] c = "A" -> 65
      [] c = "B" -> 66
      [] c = "C" -> 67
      [] c = "E" -> 69
      [] c = "H" -> 72
      [] c = "I" -> 73
      [] c = "L" -> 76
      [] c = "M" -> 77
      [] c = "O" -> 79
      [] c = "P" -> 80
      [] c = "R" -> 82
      [] c = "S" -> 83
      [] c = "T" -> 84
      [] c = "U" -> 85
      [] c = "V" -> 86
      [] c = "Z" -> 90
      [] c = "a" -> 97
      [] c = "b" -> 98
      [] c = "c" -> 99
      [] c = "e" -> 101
      [] c = "g" -> 103
      [] c = "h" -> 104
      [] c = "i" -> 105
      [] c = "k" -> 107
      [] c = "l" -> 108
      [] c = "m" -> 109
      [] c = "n" -> 110
      [] c = "o" -> 111
      [] c = "p" -> 112
      [] c = "r" -> 114
      [] c = "s" -> 115
      [] c = "t" -> 116
      [] c = "u" -> 117
      [] c = "v" -> 118
      [] c = "w" -> 119
      [] c = "x" -> 120
      [] c = "y" -> 121

\* a < b for Python strings: by code points, a proper prefix first
RECURSIVE SeqLess(_, _)
SeqLess(a, b) ==
    IF Len(b) = 0 THEN FALSE
    ELSE IF Len(a) = 0 THEN TRUE
    ELSE IF CharCode(a[1]) # CharCode(b[1]) THEN CharCode(a[1]) < CharCode(b[1])
    ELSE SeqLess(Tail(a), Tail(b))

StrLess(a, b) == SeqLess(Chars(a), Chars(b))

\* str.lower() on one character
LowerChar(c) ==
    CASE c = "A" -> "a"
      [] c = "B" -> "b"
      [] c = "C" -> "c"
      [] c = "D" -> "d"
      [] c = "E" -> "e"
      [] c = "F" -> "f"
      [] c = "G" -> "g"
      [] c = "H" -> "h"
      [] c = "I" -> "i"
      [] c = "J" -> "j"
      [] c = "K" -> "k"
      [] c = "L" -> "l"
      [] c = "M" -> "m"
      [] c = "N" -> "n"
      [] c = "O" -> "o"
      [] c = "P" -> "p"
      [] c = "Q" -> "q"
      [] c = "R" -> "r"
      [] c = "S" -> "s"
      [] c = "T" -> "t"
      [] c = "U" -> "u"
      [] c = "V" -> "v"
      [] c = "W" -> "w"
      [] c = "X" -> "x"
      [] c = "Y" -> "y"
      [] c = "Z" -> "z"
      [] OTHER -> c

Lower(cs) == [i \in 1..Len(cs) |-> LowerChar(cs[i])]

\* Python's `word in text` on character sequences
ContainsSeq(text, word) ==
    \E k \in 0..(Len(text) - Len(word)) :
        \A j \in 1..Len(word) : text[k + j] = word[j]

\* re.search(pattern, text, re.IGNORECASE) for a pattern of plain characters
\* and dots: a dot stands for any character, any other character for itself
\* in either case
PatternChar(p, c) == p = "." \/ LowerChar(p) = LowerChar(c)

SearchPattern(text, pattern) ==
    \E k \in 0..(Len(text) - Len(pattern)) :
        \A j \in 1..Len(pattern) : PatternChar(pattern[j], text[k + j])

Min2(a, b) == IF a <= b THEN a ELSE b
Max2(a, b) == IF a >= b THEN a ELSE b


(***************************************************************************)
(* Calendar: reference_date.year / .month of a day number                  *)
(***************************************************************************)
EpochOffset == 737730     \* days from 0000-03-01 to 2020-01-01

\* <<year, month>> of the day `d` days after 2020-01-01 (proleptic Gregorian)
YearMonth(d) ==
    LET z   == d + EpochOffset
        era == z \div 146097
        doe == z - era * 146097
        yoe == (doe - (doe \div 1460) + (doe \div 36524) - (doe \div 146096)) \div 365
        doy == doe - (365 * yoe + (yoe \div 4) - (yoe \div 100))
        mp  == (5 * doy + 2) \div 153
        m   == IF mp < 10 THEN mp + 3 ELSE mp - 9
        yr  == yoe + era * 400
    IN  <<IF m <= 2 THEN yr + 1 ELSE yr, m>>

\* NaT.year and NaT.month are NaN
YearOf(d)  == IF d = NaT THEN NaT ELSE YearMonth(d)[1]
MonthOf(d) == IF d = NaT THEN NaT ELSE YearMonth(d)[2]

(***************************************************************************)
(* Exact fractions                                                         *)
(***************************************************************************)
Rat(n, d) == [num |-> n, den |-> d]

\* Python's max(1, q): q when q > 1, otherwise 1 (q.den > 0)
RatMaxOne(q) == IF q.num > q.den THEN q ELSE Rat(1, 1)

\* n / q for an integer n and a fraction q > 0
IntDivRat(n, q) == Rat(n * q.den, q.num)

RatLeqInt(q, n) == q.num <= n * q.den
RatEqInt(q, n)  == q.num = n * q.den

(***************************************************************************)
(* The event store                                                         *)
(***************************************************************************)
Drugs      == {"Heparin", "Zinc Tablet"}
Companies  == {"Teva Pharmaceuticals", "Baxter"}
Categories == {"Hematology"}
Firms      == {"TEVA PHARMACEUTICALS USA"}
Classes    == {"Class I", "Class II"}

\* datetime.now(), later than every event of the store
NowDays == {1400}

MaxShortageRows    == 3
MaxEnforcementRows == 1

ShortageRowsOf(drugs, companies, dates) ==
    [generic_name : drugs, company_name : companies,
     therapeutic_category : Categories, initial_posting_date : dates]

EnforcementRowsOf(firms, classes, dates) ==
    [recalling_firm : firms, classification : classes,
     recall_initiation_date : dates]

\* Events for the label construction: posting dates 45, 90, 106 and 999 days
\* apart, drugs with and without a name
LabelDates    == {0, 45, 135, 151, 1044}
LabelRows     == ShortageRowsOf(Drugs \cup {NULL}, {"Baxter"}, LabelDates)
LabelEnfRows  == EnforcementRowsOf(Firms, {"Class I"}, {40})

\* Events for the feature construction: dates before, on, one year after and
\* later than the epoch, 999 days apart, two companies
FeatureDates   == {-45, 0, 365, 1364}
FeatureRows    == ShortageRowsOf(Drugs, Companies, FeatureDates)
FeatureEnfRows == EnforcementRowsOf(Firms, {"Class I"}, {350})

\* ORDER BY initial_posting_date DESC: the rows without a date come first
DescendingBy(df, row, col) ==
    IF Len(df) = 0 THEN TRUE
    ELSE IF df[Len(df)][col] = NaT THEN TRUE
    ELSE row[col] # NaT /\ row[col] <= df[Len(df)][col]


(***************************************************************************)
(* pandas helpers                                                          *)
(***************************************************************************)
\* Series.dropna().unique(): the non-null values in order of first appearance
RECURSIVE UniqueNonNull(_, _)
UniqueNonNull(df, col) ==
    IF Len(df) = 0 THEN << >>
    ELSE LET init == UniqueNonNull(SubSeq(df, 1, Len(df) - 1), col)
             v    == df[Len(df)][col]
         IN  IF v = NULL \/ (\E i \in 1..Len(init) : init[i] = v)
             THEN init ELSE Append(init, v)

\* df[df[col] == v]: the matching rows, in table order
RECURSIVE WhereEq(_, _, _)
WhereEq(df, col, v) ==
    IF Len(df) = 0 THEN << >>
    ELSE LET init == WhereEq(SubSeq(df, 1, Len(df) - 1), col, v)
             row  == df[Len(df)]
         IN  IF row[col] = v THEN Append(init, row) ELSE init

\* df[df[col] < v]
RECURSIVE WhereLess(_, _, _)
WhereLess(df, col, v) ==
    IF Len(df) = 0 THEN << >>
    ELSE LET init == WhereLess(SubSeq(df, 1, Len(df) - 1), col, v)
             row  == df[Len(df)]
         IN  IF Less(row[col], v) THEN Append(init, row) ELSE init

\* df[df[col] > v]
RECURSIVE WhereGreater(_, _, _)
WhereGreater(df, col, v) ==
    IF Len(df) = 0 THEN << >>
    ELSE LET init == WhereGreater(SubSeq(df, 1, Len(df) - 1), col, v)
             row  == df[Len(df)]
         IN  IF Less(v, row[col]) THEN Append(init, row) ELSE init

\* df[df[col] <= v]
RECURSIVE WhereLeq(_, _, _)
WhereLeq(df, col, v) ==
    IF Len(df) = 0 THEN << >>
    ELSE LET init == WhereLeq(SubSeq(df, 1, Len(df) - 1), col, v)
             row  == df[Len(df)]
         IN  IF Less(row[col], v) \/ (v # NaT /\ row[col] = v)
             THEN Append(init, row) ELSE init

\* df[col].max(): the greatest of the values that are not missing, missing
\* when there is none
ColMax(df, col) ==
    LET vals == {df[i][col] : i \in 1..Len(df)} \ {NaT}
    IN  IF vals = {} THEN NaT
        ELSE CHOOSE m \in vals : \A v \in vals : v <= m

\* df[col].nunique(): the number of distinct non-null values
NUnique(df, col) == Cardinality({df[i][col] : i \in 1..Len(df)} \ {NULL})

\* the order of sort_values: ascending, the missing keys last
LeqNaLast(a, b) == b = NaT \/ (a # NaT /\ a <= b)

\* df.sort_values(col): the default sort is not stable, so rows with equal
\* keys may come out in any order; the set of possible results
RECURSIVE SortValues(_, _)
SortValues(df, col) ==
    IF Len(df) = 0 THEN {<< >>}
    ELSE LET idx  == 1..Len(df)
             low  == {i \in idx : \A j \in idx : LeqNaLast(df[i][col], df[j][col])}
             \* one position per distinct row among the least ones
             reps == {i \in low : \A j \in low : df[j] = df[i] => i <= j}
             Drop(i) == SubSeq(df, 1, i - 1) \o SubSeq(df, i + 1, Len(df))
         IN  UNION {{<<df[i]>> \o t : t \in SortValues(Drop(i), col)} : i \in reps}


\* df.sort_values(col, ascending=False)
RECURSIVE SortValuesDescending(_, _)
SortValuesDescending(df, col) ==
    IF Len(df) = 0 THEN {<< >>}
    ELSE LET idx  == 1..Len(df)
             high == {i \in idx : \A j \in idx : df[i][col] >= df[j][col]}
             reps == {i \in high : \A j \in high : df[j] = df[i] => i <= j}
             Drop(i) == SubSeq(df, 1, i - 1) \o SubSeq(df, i + 1, Len(df))
         IN  UNION {{<<df[i]>> \o t : t \in SortValuesDescending(Drop(i), col)} : i \in reps}

\* Series.unique(): the distinct values in order of first appearance
RECURSIVE Unique(_, _)
Unique(df, col) ==
    IF Len(df) = 0 THEN << >>
    ELSE LET init == Unique(SubSeq(df, 1, Len(df) - 1), col)
             v    == df[Len(df)][col]
         IN  IF \E i \in 1..Len(init) : init[i] = v THEN init ELSE Append(init, v)

(***************************************************************************)
(* create_target_variable                                                  *)
(***************************************************************************)
HorizonDays      == 90
Sentinel         == 999
NegativesPerDrug == 3
\* np.random.randint(30, 1000) draws from 30..999; the two ends stand for it
RandomOffsets    == {30, 999}

\* line 86: drug_data.iloc[:i], for the record at position k = i + 1
HistoricalData(drug_data, k) == SubSeq(drug_data, 1, k - 1)

\* the window closed at the wrong end: (d, d + 90)
FutureShortagesOpenEnd(drug_data, record) ==
    LET d           == record.initial_posting_date
        future_date == Plus(d, HorizonDays)
    IN  WhereLess(WhereGreater(drug_data, "initial_posting_date", d),
                  "initial_posting_date", future_date)

\* lines 89-91: the drug's events in (d, d + 90]
FutureShortages(drug_data, record) ==
    LET d           == record.initial_posting_date
        future_date == Plus(d, HorizonDays)
    IN  WhereLeq(WhereGreater(drug_data, "initial_posting_date", d),
                 "initial_posting_date", future_date)

\* the gap taken to the first prior event instead of the latest
DaysSinceFirstShortage(record, historical_data) ==
    IF Len(historical_data) > 0
    THEN Minus(record.initial_posting_date, historical_data[1].initial_posting_date)
    ELSE Sentinel

\* line 103
DaysSinceLastShortage(record, historical_data) ==
    IF Len(historical_data) > 0
    THEN Minus(record.initial_posting_date,
               ColMax(historical_data, "initial_posting_date"))
    ELSE Sentinel

\* lines 95-104: the observation of the record at position k of drug_data
Observation(drug_name, drug_data, k) ==
    LET record          == drug_data[k]
        historical_data == HistoricalData(drug_data, k)
    IN  [drug_name                 |-> drug_name,
         company_name              |-> record.company_name,
         therapeutic_category      |-> record.therapeutic_category,
         reference_date            |-> record.initial_posting_date,
         current_shortage          |-> TRUE,
         future_shortage           |-> Len(FutureShortages(drug_data, record)) > 0,
         historical_shortage_count |-> Len(historical_data),
         days_since_last_shortage  |-> DaysSinceLastShortage(record, historical_data)]

\* the loop stopping one record early
DrugObservationsButLast(df, drug_name) ==
    {[k \in 1..(Len(drug_data) - 1) |-> Observation(drug_name, drug_data, k)] :
        drug_data \in SortValues(WhereEq(df, "generic_name", drug_name),
                                 "initial_posting_date")}

\* lines 78-104 for one drug: one observation per row of the sorted drug_data
DrugObservations(df, drug_name) ==
    {[k \in 1..Len(drug_data) |-> Observation(drug_name, drug_data, k)] :
        drug_data \in SortValues(WhereEq(df, "generic_name", drug_name),
                                 "initial_posting_date")}

\* lines 77-104: the drugs in order of first appearance
RECURSIVE ShortageHistory(_, _)
ShortageHistory(df, drug_names) ==
    IF Len(drug_names) = 0 THEN {<< >>}
    ELSE LET n == Len(drug_names)
         IN  {h \o obs : h \in ShortageHistory(df, SubSeq(drug_names, 1, n - 1)),
                         obs \in DrugObservations(df, drug_names[n])}

\* lines 117-126
SyntheticObservation(drug_name, now, offset) ==
    [drug_name                 |-> drug_name,
     company_name              |-> "Unknown",
     therapeutic_category      |-> "Unknown",
     reference_date            |-> now - offset,
     current_shortage          |-> FALSE,
     future_shortage           |-> FALSE,
     historical_shortage_count |-> 0,
     days_since_last_shortage  |-> Sentinel]

\* all_drugs taken from the list of known drugs instead of the table
NonShortageDrugsOfCatalogue(df, history) ==
    LET shortage_drugs == {history[i].drug_name : i \in 1..Len(history)}
    IN  Drugs \ shortage_drugs

\* lines 108-113: the drugs that get synthetic negatives
NonShortageDrugs(df, history) ==
    LET all_drugs      == {df[i].generic_name : i \in 1..Len(df)} \ {NULL}
        shortage_drugs == {history[i].drug_name : i \in 1..Len(history)}
    IN  all_drugs \ shortage_drugs

\* lines 112-126: a set is iterated in no fixed order and every date is random
RECURSIVE NegativeExamples(_, _)
NegativeExamples(drugs, now) ==
    IF drugs = {} THEN {<< >>}
    ELSE UNION {
           {[k \in 1..NegativesPerDrug |-> SyntheticObservation(d, now, offs[k])] \o rest :
                offs \in [1..NegativesPerDrug -> RandomOffsets],
                rest \in NegativeExamples(drugs \ {d}, now)} : d \in drugs}

\* lines 75-128: every table create_target_variable may produce
TargetTables(df, now) ==
    UNION {{history \o neg : neg \in NegativeExamples(NonShortageDrugs(df, history), now)} :
             history \in ShortageHistory(df, UniqueNonNull(df, "generic_name"))}

(***************************************************************************)
(* Loading                                                                 *)
(***************************************************************************)
\* line 52: StandardScaler(), not fitted
Unfitted == [fitted |-> FALSE, X_train |-> << >>]

\* no call of predict_proba
NoProbaCall == [model |-> NULL, scaled |-> FALSE]

\* no call of predict_shortage_risk under way in another thread
IdleScoring == [at |-> "idle", best_model |-> NULL, model_encoders |-> << >>,
                encoders |-> << >>]

\* nothing returned yet
NotCalled == [returned |-> "not called", rows |-> << >>]

\* no call of predict_shortage_risk
NoCall == [drug_name |-> NULL, company_name |-> NULL, top_n |-> 0,
           current_date |-> NaT]

\* get_drug_shortage_data / get_drug_enforcement_data not called
NoIngest == [save_to_csv |-> FALSE, load_to_database |-> FALSE,
             credentials |-> FALSE, previous |-> {}]

\* the CSV file not written
NoFile == [written |-> FALSE, rows |-> {}]

Init ==
    /\ shortage_df = << >>
    /\ enforcement_df = << >>
    /\ target_df = NONE
    /\ features_df = NONE
    /\ X = NONE
    /\ y = NONE
    /\ label_encoders = << >>
    /\ scaler = Unfitted
    /\ test_split = NONE
    /\ models = << >>
    /\ fit_log = << >>
    /\ predictions = NotCalled
    /\ pred_df = << >>
    /\ pred_features = << >>
    /\ proba_call = NoProbaCall
    /\ call_args = NoCall
    /\ scoring = IdleScoring
    /\ pc = "init"
    /\ ingest_args = NoIngest
    /\ ingest_at = "idle"
    /\ requests = << >>
    /\ total = 0
    /\ records = {}
    /\ csv_file = NoFile
    /\ prepared_df = {}
    /\ db_table = {}
    /\ db_conn = "none"

\* extract_drug_shortage_data: the next row of the result set
FetchShortageRow(rows, max) ==
    /\ pc = "init"
    /\ Len(enforcement_df) = 0
    /\ Len(shortage_df) < max
    /\ \E row \in rows :
         /\ DescendingBy(shortage_df, row, "initial_posting_date")
         /\ shortage_df' = Append(shortage_df, row)
    /\ UNCHANGED <<enforcement_df, target_df, features_df, pc, modelVars, predictVars, ingestVars>>

\* extract_drug_enforcement_data: the next row of the result set
FetchEnforcementRow(rows, max) ==
    /\ pc = "init"
    /\ Len(enforcement_df) < max
    /\ \E row \in rows :
         /\ DescendingBy(enforcement_df, row, "recall_initiation_date")
         /\ enforcement_df' = Append(enforcement_df, row)
    /\ UNCHANGED <<shortage_df, target_df, features_df, pc, modelVars, predictVars, ingestVars>>

\* load_data: an empty result set makes a frame without columns, and the date
\* conversion raises KeyError
LoadData ==
    /\ pc = "init"
    /\ pc' = IF Len(shortage_df) = 0 \/ Len(enforcement_df) = 0
             THEN "load_failed" ELSE "loaded"
    /\ UNCHANGED <<shortage_df, enforcement_df, target_df, features_df, modelVars, predictVars, ingestVars>>

CreateTargetVariable ==
    /\ pc = "loaded"
    /\ \E now \in NowDays : target_df' \in TargetTables(shortage_df, now)
    /\ pc' = "labelled"
    /\ UNCHANGED <<shortage_df, enforcement_df, features_df, modelVars, predictVars, ingestVars>>


(***************************************************************************)
(* engineer_features                                                       *)
(***************************************************************************)
PrefixLen     == 10       \* company_name[:10]
DaysPerYear   == 365
GenericWords  == {<<"g","e","n","e","r","i","c">>, <<"t","a","b","l","e","t">>,
                  <<"c","a","p","s","u","l","e">>}

\* lines 145-148
HistoricalShortages(shortage, drug_name, reference_date) ==
    WhereLess(WhereEq(shortage, "generic_name", drug_name),
              "initial_posting_date", reference_date)

\* lines 151-154
CompanyShortages(shortage, company_name, reference_date) ==
    WhereLess(WhereEq(shortage, "company_name", company_name),
              "initial_posting_date", reference_date)

\* line 158: recalling_firm.str.contains(company_name[:10], case=False, na=False)
\* str.contains takes its argument as a regular expression (regex=True is
\* the default); of the special characters the names of the model hold the dot
FirmMatches(recalling_firm, company_name) ==
    /\ recalling_firm # NULL
    /\ LET name   == Chars(company_name)
           prefix == SubSeq(name, 1, Min2(PrefixLen, Len(name)))
       IN  SearchPattern(Chars(recalling_firm), prefix)

\* lines 157-160
RECURSIVE CompanyEnforcements(_, _, _)
CompanyEnforcements(enforcement, company_name, reference_date) ==
    IF Len(enforcement) = 0 THEN << >>
    ELSE LET n    == Len(enforcement)
             init == CompanyEnforcements(SubSeq(enforcement, 1, n - 1),
                                         company_name, reference_date)
             row  == enforcement[n]
         IN  IF /\ FirmMatches(row.recalling_firm, company_name)
                /\ Less(row.recall_initiation_date, reference_date)
             THEN Append(init, row) ELSE init

\* line 178: Series.diff().dt.days.mean(): each row minus the row above it, in
\* the order of the table, averaged
RECURSIVE SumOfDiffs(_, _)
SumOfDiffs(df, col) ==
    IF Len(df) < 2 THEN 0
    ELSE LET n == Len(df)
         IN  SumOfDiffs(SubSeq(df, 1, n - 1), col) + (df[n][col] - df[n - 1][col])

AvgShortageDuration(historical_shortages) ==
    IF Len(historical_shortages) > 1
    THEN Rat(SumOfDiffs(historical_shortages, "initial_posting_date"),
             Len(historical_shortages) - 1)
    ELSE Rat(0, 1)

\* the rate without the floor of 1 under the years since the epoch
CompanyShortageRateNoFloor(company_shortages, days_since_epoch) ==
    IF days_since_epoch = NaT THEN Rat(0, 0)
    ELSE IntDivRat(Len(company_shortages), Rat(days_since_epoch, DaysPerYear))

\* line 182: len(company_shortages) / max(1, days_since_epoch / 365);
\* max(1, NaN) is 1, as NaN > 1 is False
CompanyShortageRate(company_shortages, days_since_epoch) ==
    IF days_since_epoch = NaT THEN Rat(Len(company_shortages), 1)
    ELSE IntDivRat(Len(company_shortages),
                   RatMaxOne(Rat(days_since_epoch, DaysPerYear)))

\* the window with its older end included
RecentEnforcementsClosedWindow(company_enforcements, reference_date, days) ==
    Len(WhereGreater(company_enforcements, "recall_initiation_date",
                     Minus(reference_date, days + 1)))

\* lines 186-188
RecentEnforcements(company_enforcements, reference_date, days) ==
    Len(WhereGreater(company_enforcements, "recall_initiation_date",
                     Minus(reference_date, days)))

\* line 190
DaysSinceLastEnforcement(company_enforcements, reference_date) ==
    IF Len(company_enforcements) > 0
    THEN Minus(reference_date, ColMax(company_enforcements, "recall_initiation_date"))
    ELSE Sentinel

\* line 206
IsGeneric(drug_name) ==
    IF \E word \in GenericWords : ContainsSeq(Lower(Chars(drug_name)), word)
    THEN 1 ELSE 0

\* line 214: DataFrame.fillna(0).  In a text column the 0 is written as the
\* text "0" that astype(str) (line 231) makes of it.
FillNa(v) == IF v = NULL THEN "0" ELSE v

\* a column of numbers left as it is
KeepMissingNumber(v) == v

\* line 214 in a column of numbers or dates
FillMissingNumber(v) == IF v = NaT THEN 0 ELSE v

\* line 214 in a column of fractions; 0 over 0 stands for NaN
FillMissingRatio(q) == IF q.num = 0 /\ q.den = 0 THEN Rat(0, 1) ELSE q

TextColumns  == {"drug_name", "company_name", "therapeutic_category"}
\* the columns that hold fractions
RatioColumns == {"avg_shortage_duration", "company_shortage_rate"}

\* lines 140-207: the features dict of one observation
RawFeatures(row, shortage, enforcement) ==
    LET drug_name            == row.drug_name
        company_name         == row.company_name
        reference_date       == row.reference_date
        historical_shortages == HistoricalShortages(shortage, drug_name, reference_date)
        company_shortages    == CompanyShortages(shortage, company_name, reference_date)
        company_enforcements == CompanyEnforcements(enforcement, company_name, reference_date)
        days_since_epoch     == Minus(reference_date, 0)
        month                == MonthOf(reference_date)
        quarter              == IF month = NaT THEN NaT ELSE ((month - 1) \div 3) + 1
    IN  [drug_name                     |-> drug_name,
         company_name                  |-> company_name,
         reference_date                |-> reference_date,
         target                        |-> row.future_shortage,
         historical_shortage_count     |-> Len(historical_shortages),
         days_since_last_shortage      |-> row.days_since_last_shortage,
         avg_shortage_duration         |-> AvgShortageDuration(historical_shortages),
         company_shortage_count        |-> Len(company_shortages),
         company_shortage_rate         |-> CompanyShortageRate(company_shortages, days_since_epoch),
         company_unique_drugs_affected |-> NUnique(company_shortages, "generic_name"),
         recent_enforcements_30d       |-> RecentEnforcements(company_enforcements, reference_date, 30),
         recent_enforcements_90d       |-> RecentEnforcements(company_enforcements, reference_date, 90),
         recent_enforcements_365d      |-> RecentEnforcements(company_enforcements, reference_date, 365),
         class_i_recalls               |-> Len(WhereEq(company_enforcements, "classification", "Class I")),
         days_since_last_enforcement   |-> DaysSinceLastEnforcement(company_enforcements, reference_date),
         therapeutic_category          |-> row.therapeutic_category,
         month                         |-> month,
         quarter                       |-> quarter,
         is_q4                         |-> IF quarter = 4 THEN 1 ELSE 0,
         days_since_epoch              |-> days_since_epoch,
         year                          |-> YearOf(reference_date),
         drug_name_length              |-> Len(Chars(drug_name)),
         is_generic                    |-> IsGeneric(drug_name)]

\* lines 140-207 and 214: the FeatureVector of one observation, every
\* missing value filled
FeatureVector(row, shortage, enforcement) ==
    LET features == RawFeatures(row, shortage, enforcement)
    IN  [c \in DOMAIN features |->
            IF c \in TextColumns THEN FillNa(features[c])
            ELSE IF c \in RatioColumns THEN FillMissingRatio(features[c])
            ELSE IF c = "target" THEN features[c]
            ELSE FillMissingNumber(features[c])]

\* line 158 raises TypeError on a company_name that is None
EngineerRaises(target) ==
    \E k \in 1..Len(target) : target[k].company_name = NULL

FeatureTable(target, shortage, enforcement) ==
    [k \in 1..Len(target) |-> FeatureVector(target[k], shortage, enforcement)]

EngineerFeatures ==
    /\ pc = "labelled"
    /\ IF EngineerRaises(target_df)
       THEN /\ pc' = "features_failed"
            /\ UNCHANGED features_df
       ELSE /\ pc' = "featured"
            /\ features_df' = FeatureTable(target_df, shortage_df, enforcement_df)
    /\ UNCHANGED <<shortage_df, enforcement_df, target_df, modelVars, predictVars, ingestVars>>

(***************************************************************************)
(* prepare_for_modeling                                                    *)
(***************************************************************************)
CategoricalCols == {"therapeutic_category", "drug_name", "company_name"}

EncodedName(col) ==
    CASE col = "therapeutic_category" -> "therapeutic_category_encoded"
      [] col = "drug_name"            -> "drug_name_encoded"
      [] col = "company_name"         -> "company_name_encoded"

\* lines 236-244
FeatureColumns ==
    {"historical_shortage_count", "days_since_last_shortage", "avg_shortage_duration",
     "company_shortage_count", "company_shortage_rate", "company_unique_drugs_affected",
     "recent_enforcements_30d", "recent_enforcements_90d", "recent_enforcements_365d",
     "class_i_recalls", "days_since_last_enforcement",
     "month", "quarter", "is_q4", "days_since_epoch", "year",
     "drug_name_length", "is_generic",
     "therapeutic_category_encoded", "drug_name_encoded", "company_name_encoded"}

\* LabelEncoder.fit: classes_ is the sorted array of the distinct values
RECURSIVE SortedClasses(_)
SortedClasses(values) ==
    IF values = {} THEN << >>
    ELSE LET least == CHOOSE v \in values : \A w \in values \ {v} : StrLess(v, w)
         IN  <<least>> \o SortedClasses(values \ {least})

\* LabelEncoder.transform of a value of classes_: its position, from 0
ClassCode(classes, v) == (CHOOSE n \in 1..Len(classes) : classes[n] = v) - 1

\* lines 229-233 for one column
FitEncoder(features, col) ==
    SortedClasses({features[k][col] : k \in 1..Len(features)})

\* line 232: the row with its three encoded columns
WithEncodedColumns(row, encoders) ==
    [c \in DOMAIN row \cup {EncodedName(col) : col \in CategoricalCols} |->
        IF c \in DOMAIN row THEN row[c]
        ELSE LET col == CHOOSE cc \in CategoricalCols : EncodedName(cc) = c
             IN  ClassCode(encoders[col], row[col])]

\* line 253: X.replace([inf, -inf], 0); a fraction over 0 stands for infinity
ReplaceInf(c, v) ==
    IF c \in RatioColumns /\ v.den = 0 THEN Rat(0, 1) ELSE v

\* lines 249 and 253
ModelMatrix(features) ==
    [k \in 1..Len(features) |->
        [c \in FeatureColumns |-> ReplaceInf(c, features[k][c])]]

PrepareForModeling ==
    /\ pc = "featured"
    /\ IF Len(features_df) = 0
       THEN \* a frame without columns: X is set, then 'target' raises KeyError
            /\ X' = << >>
            /\ pc' = "prepare_failed"
            /\ UNCHANGED <<features_df, y, label_encoders>>
       ELSE LET encoders == [col \in CategoricalCols |-> FitEncoder(features_df, col)]
                encoded  == [k \in 1..Len(features_df) |->
                                WithEncodedColumns(features_df[k], encoders)]
            IN  /\ features_df' = encoded
                /\ label_encoders' = encoders
                /\ X' = ModelMatrix(encoded)
                /\ y' = [k \in 1..Len(encoded) |-> IF encoded[k].target THEN 1 ELSE 0]
                /\ pc' = "prepared"
    /\ UNCHANGED <<shortage_df, enforcement_df, target_df, scaler, test_split,
                   models, fit_log, predictVars, ingestVars>>

(***************************************************************************)
(* train_models                                                            *)
(***************************************************************************)
\* train_test_split(test_size=0.2): n_test = ceil(0.2 * n)
TestSize(n) == (n + 4) \div 5

ClassCount(labels, c) == Cardinality({k \in 1..Len(labels) : labels[k] = c})
ClassesOf(labels)     == {labels[k] : k \in 1..Len(labels)}

\* lines 265-267: the stratified split raises ValueError on no sample, an
\* empty training part, a class with a single member, or a part smaller than
\* the number of classes
SplitRaises(labels) ==
    LET n         == Len(labels)
        n_test    == TestSize(n)
        n_train   == n - n_test
        n_classes == Cardinality(ClassesOf(labels))
    IN  \/ n = 0
        \/ n_train = 0
        \/ \E c \in ClassesOf(labels) : ClassCount(labels, c) < 2
        \/ n_train < n_classes
        \/ n_test < n_classes

\* line 281: LogisticRegression.fit raises ValueError on a single class
FitRaises(labels) == Cardinality(ClassesOf(labels)) < 2

\* lines 280-294: the order of the three fits
FitOrder == <<"logistic_regression", "random_forest", "xgboost">>

\* A fit may also raise for a reason outside the data (MemoryError, a worker
\* of n_jobs=-1 that dies); `failing` are the positions in FitOrder of the
\* fits that may.  The position of the fit that raises, Len(FitOrder) + 1
\* when none does:
FirstFailures(labels, failing) ==
    IF FitRaises(labels) THEN {1} ELSE failing \cup {Len(FitOrder) + 1}

NoFit  == {}
AnyFit == 1..Len(FitOrder)

\* lines 281, 287, 293: a classifier fitted on the split of X and y; the
\* encoders are those that made the encoded columns of X
Fitted(name, encoders, XX, yy) ==
    [scaled_input |-> name = "logistic_regression",
     encoders |-> encoders, X_train |-> XX, y_train |-> yy]

\* lines 280-294: self.models after the fits before position `first_failure`
ModelsAfterFits(old, first_failure, encoders, XX, yy) ==
    LET done == {FitOrder[i] : i \in 1..(first_failure - 1)}
    IN  [name \in DOMAIN old \cup done |->
            IF name \in done THEN Fitted(name, encoders, XX, yy) ELSE old[name]]

TrainModels(failing) ==
    /\ pc = "prepared"
    /\ IF SplitRaises(y)
       THEN /\ pc' = "train_failed"
            /\ fit_log' = << >>
            /\ UNCHANGED <<scaler, test_split, models>>
       ELSE /\ scaler' = [fitted |-> TRUE, X_train |-> X]
            /\ test_split' = [n_train |-> Len(y) - TestSize(Len(y)),
                              n_test  |-> TestSize(Len(y))]
            /\ \E first_failure \in FirstFailures(y, failing) :
                 /\ fit_log' = SubSeq(FitOrder, 1, Min2(first_failure, Len(FitOrder)))
                 /\ models' = ModelsAfterFits(models, first_failure, label_encoders, X, y)
                 /\ pc' = IF first_failure > Len(FitOrder)
                          THEN "trained" ELSE "train_failed"
    /\ UNCHANGED <<shortage_df, enforcement_df, target_df, features_df, X, y,
                   label_encoders, predictVars, ingestVars>>

(***************************************************************************)
(* predict_shortage_risk                                                   *)
(***************************************************************************)
PredictLimit == 100       \* drugs_to_predict[:100]
UnseenCode   == -1        \* .fillna(-1) for a value the encoder has not seen

\* probabilities in thousandths; predict_proba is the fitted library model,
\* any of these values may come out of it
ProbGrid == {0, 300, 700, 1000}

\* line 369
BestModel(fitted) ==
    IF "xgboost" \in DOMAIN fitted THEN "xgboost"
    ELSE IF "random_forest" \in DOMAIN fitted THEN "random_forest"
    ELSE IF "logistic_regression" \in DOMAIN fitted THEN "logistic_regression"
    ELSE NULL

\* lines 380-385
DrugsToPredict(features, drug_name) ==
    LET drugs == IF drug_name # NULL THEN <<drug_name>> ELSE Unique(features, "drug_name")
    IN  SubSeq(drugs, 1, Min2(PredictLimit, Len(drugs)))

\* lines 392-411: the features of one drug at the current date
CurrentFeatures(shortage, drug, company_name, current_date) ==
    LET drug_data            == WhereEq(shortage, "generic_name", drug)
        company              == IF company_name = NULL
                                THEN drug_data[1].company_name ELSE company_name
        historical_shortages == WhereLess(drug_data, "initial_posting_date", current_date)
        company_shortages    == WhereLess(WhereEq(shortage, "company_name", company),
                                          "initial_posting_date", current_date)
    IN  [drug_name                 |-> drug,
         company_name              |-> company,
         historical_shortage_count |-> Len(historical_shortages),
         days_since_last_shortage  |->
            IF Len(historical_shortages) > 0
            THEN Minus(current_date, ColMax(historical_shortages, "initial_posting_date"))
            ELSE Sentinel,
         company_shortage_count    |-> Len(company_shortages),
         month                     |-> MonthOf(current_date),
         quarter                   |-> ((MonthOf(current_date) - 1) \div 3) + 1,
         year                      |-> YearOf(current_date),
         days_since_epoch          |-> current_date]

\* lines 385-413: drugs without a shortage row are skipped
RECURSIVE CurrentFeatureRows(_, _, _, _)
CurrentFeatureRows(shortage, drugs, company_name, current_date) ==
    IF Len(drugs) = 0 THEN << >>
    ELSE LET n    == Len(drugs)
             init == CurrentFeatureRows(shortage, SubSeq(drugs, 1, n - 1),
                                        company_name, current_date)
         IN  IF Len(WhereEq(shortage, "generic_name", drugs[n])) = 0
             THEN init
             ELSE Append(init, CurrentFeatures(shortage, drugs[n], company_name,
                                               current_date))

\* the unseen value given the code 0
EncodeOrZero(classes, v) ==
    IF \E n \in 1..Len(classes) : classes[n] = v
    THEN ClassCode(classes, v) ELSE 0

\* lines 425-427: the code of a value seen at fitting, -1 otherwise
EncodeOrSentinel(classes, v) ==
    IF \E n \in 1..Len(classes) : classes[n] = v
    THEN ClassCode(classes, v) ELSE UnseenCode

\* lines 420-432: one row of pred_df: the current features, the codes of the
\* two columns that are encoded, and 0 in every column of X it has not got
PredDfRow(row, encoders) ==
    LET encoded == {EncodedName(col) :
                      col \in {"drug_name", "company_name"} \cap DOMAIN encoders}
    IN  [c \in DOMAIN row \cup encoded \cup FeatureColumns |->
            IF c \in DOMAIN row THEN row[c]
            ELSE IF c \in encoded
                 THEN LET col == CHOOSE cc \in CategoricalCols : EncodedName(cc) = c
                      IN  EncodeOrSentinel(encoders[col], row[col])
            ELSE IF c \in RatioColumns THEN Rat(0, 1)
            ELSE 0]

\* line 435: pred_df[self.X.columns].fillna(0)
PredFeatureRow(pred_row) ==
    [c \in FeatureColumns |->
        IF c \in RatioColumns THEN FillMissingRatio(pred_row[c])
        ELSE FillMissingNumber(pred_row[c])]

\* line 445: pd.cut(p, bins=[0, 0.3, 0.7, 1.0], labels=['Low', 'Medium', 'High']):
\* intervals open on the left and closed on the right, no label outside them
RiskLevel(p) ==
    IF 0 < p /\ p <= 300 THEN "Low"
    ELSE IF 300 < p /\ p <= 700 THEN "Medium"
    ELSE IF 700 < p /\ p <= 1000 THEN "High"
    ELSE NULL

\* lines 441-446, before the sort
ResultRows(rows, probs) ==
    [k \in 1..Len(rows) |->
        [drug_name            |-> rows[k].drug_name,
         company_name         |-> rows[k].company_name,
         shortage_probability |-> probs[k],
         risk_level           |-> RiskLevel(probs[k])]]

ReturnNone == [returned |-> "None", rows |-> << >>]

DrugArgs    == {NULL, "Heparin", "Unknown"}
CompanyArgs == {NULL, "Baxter", "Unknown"}
TopNs       == {1, 20}

\* the calls of run_full_pipeline, run_specific_drug_analysis and
\* run_company_analysis: at most one of the two filters is given, top_n is 1
\* with a drug and the larger number without
PredictCalls ==
    {call \in [drug_name : DrugArgs, company_name : CompanyArgs, top_n : TopNs] :
        /\ call.drug_name = NULL \/ call.company_name = NULL
        /\ call.top_n = 1 <=> call.drug_name # NULL}

\* a call that fitted the scaler on the rows it scores
PredictRefitsScaler ==
    /\ scaler' = [fitted |-> TRUE, X_train |-> pred_features']
    /\ UNCHANGED <<shortage_df, enforcement_df, target_df, features_df, X, y,
                   label_encoders, test_split, models, fit_log, pc, ingestVars>>

\* lines 362-451 assign no attribute of the predictor
PredictKeeps ==
    UNCHANGED <<shortage_df, enforcement_df, target_df, features_df, modelVars, pc,
                ingestVars>>

\* a call that returns None before it builds pred_df
PredictNothing ==
    /\ predictions' = ReturnNone
    /\ pred_df' = << >>
    /\ pred_features' = << >>
    /\ proba_call' = NoProbaCall

\* lines 375-451 with the model chosen at line 369; top_n only limits what
\* is printed (line 449), the whole frame is returned
Score(best_model, call, current_date, grid) ==
    \E rows \in {CurrentFeatureRows(shortage_df,
                      DrugsToPredict(features_df, call.drug_name),
                      call.company_name, current_date)} :
       IF Len(rows) = 0
       THEN PredictNothing
       ELSE /\ pred_df' =
                 [k \in 1..Len(rows) |-> PredDfRow(rows[k], label_encoders)]
            /\ pred_features' =
                 [k \in 1..Len(rows) |-> PredFeatureRow(pred_df'[k])]
            /\ proba_call' = [model |-> best_model, scaled |-> FALSE]
            /\ \E probs \in [1..Len(rows) -> grid] :
                 \E sorted \in SortValuesDescending(ResultRows(rows, probs),
                                                    "shortage_probability") :
                    predictions' = [returned |-> "frame", rows |-> sorted]

CallArgs(call, current_date) ==
    [drug_name |-> call.drug_name, company_name |-> call.company_name,
     top_n |-> call.top_n, current_date |-> current_date]

PredictShortageRisk(calls, clocks, grid) ==
    /\ pc \in {"trained", "train_failed"}
    /\ \E call \in calls, current_date \in clocks :
         /\ call_args' = CallArgs(call, current_date)
         /\ IF BestModel(models) = NULL
            THEN PredictNothing
            ELSE Score(BestModel(models), call, current_date, grid)
    /\ UNCHANGED scoring
    /\ PredictKeeps

(***************************************************************************)
(* The label construction Load -> create_target_variable                   *)
(***************************************************************************)
NextLabels ==
    \/ FetchShortageRow(LabelRows, MaxShortageRows)
    \/ FetchEnforcementRow(LabelEnfRows, MaxEnforcementRows)
    \/ LoadData
    \/ CreateTargetVariable

SpecLabels == Init /\ [][NextLabels]_vars

(***************************************************************************)
(* The feature construction Load -> create_target_variable ->              *)
(* engineer_features                                                       *)
(***************************************************************************)
NextFeatures ==
    \/ FetchShortageRow(FeatureRows, MaxShortageRows)
    \/ FetchEnforcementRow(FeatureEnfRows, MaxEnforcementRows)
    \/ LoadData
    \/ CreateTargetVariable
    \/ EngineerFeatures

SpecFeatures == Init /\ [][NextFeatures]_vars


(***************************************************************************)
(* The enforcement join: one company, recalls 365, 90, 30, 29 and 0 days   *)
(* before a reference date and before or after the other one, by firms     *)
(* that hold the company's name, that only fit it as a pattern, that do not *)
(* hold it, and by no firm                                                  *)
(***************************************************************************)
MaxRefRows    == 1
MaxRecallRows == 2

RefDates    == {50, 400}
RecallDates == {35, 310, 370, 371, 400}
RecallFirms == {"B. BRAUN MEDICAL INC", "B, Braun Medical", "Baxter Healthcare", NULL}

RefRows    == ShortageRowsOf({"Heparin"}, {"B. Braun Medical"}, RefDates)
\* class II recalls by the firm that holds the company's name only
RecallRows ==
    {r \in EnforcementRowsOf(RecallFirms, Classes, RecallDates) :
        r.classification = "Class II" => r.recalling_firm = "B. BRAUN MEDICAL INC"}

NextEnforcement ==
    \/ FetchShortageRow(RefRows, MaxRefRows)
    \/ FetchEnforcementRow(RecallRows, MaxRecallRows)
    \/ LoadData
    \/ CreateTargetVariable
    \/ EngineerFeatures

SpecEnforcement == Init /\ [][NextEnforcement]_vars

(***************************************************************************)
(* The model input matrix: events without a date, a company or a category  *)
(* next to complete ones                                                   *)
(***************************************************************************)
MaxMatrixRows == 2

MatrixRows ==
    [generic_name : {"Heparin"}, company_name : {"Baxter", NULL},
     therapeutic_category : {"Hematology", NULL},
     initial_posting_date : {NaT, 0, 45}]

NextMatrix ==
    \/ FetchShortageRow(MatrixRows, MaxMatrixRows)
    \/ FetchEnforcementRow(LabelEnfRows, MaxEnforcementRows)
    \/ LoadData
    \/ CreateTargetVariable
    \/ EngineerFeatures
    \/ PrepareForModeling

SpecMatrix == Init /\ [][NextMatrix]_vars

(***************************************************************************)
(* The whole pipeline, on tables large enough to train on                  *)
(***************************************************************************)
MaxTrainingRows == 6

\* Heparin posted by Baxter on days 0 and 45, Zinc Tablet by Teva on day 1,
\* each drug in a category of its own
TrainingRows ==
    {[generic_name |-> "Heparin", company_name |-> "Baxter",
      therapeutic_category |-> "Hematology", initial_posting_date |-> 0],
     [generic_name |-> "Heparin", company_name |-> "Baxter",
      therapeutic_category |-> "Hematology", initial_posting_date |-> 45],
     [generic_name |-> "Zinc Tablet", company_name |-> "Teva Pharmaceuticals",
      therapeutic_category |-> "Other", initial_posting_date |-> 1]}
TrainingEnfRows == EnforcementRowsOf(Firms, {"Class I"}, {40})

Next ==
    \/ FetchShortageRow(TrainingRows, MaxTrainingRows)
    \/ FetchEnforcementRow(TrainingEnfRows, MaxEnforcementRows)
    \/ LoadData
    \/ CreateTargetVariable
    \/ EngineerFeatures
    \/ PrepareForModeling
    \/ TrainModels(NoFit)
    \/ PredictShortageRisk(PredictCalls, NowDays, ProbGrid)

Spec == Init /\ [][Next]_vars

(***************************************************************************)
(* Scoring at two times of the clock: calls that ask for the first row,    *)
(* for all drugs, for one company's, for one drug and for a drug that is   *)
(* not in the store                                                        *)
(***************************************************************************)
\* datetime.now() of two calls: 2023-11-01 and 2023-12-02
ScoringDays == {1400, 1431}

\* probabilities below and above the first row's
ScoringGrid == {300, 700}

ScoringCalls ==
    {call \in [drug_name : DrugArgs, company_name : {NULL, "Baxter"}, top_n : {1}] :
        call.drug_name = NULL \/ call.company_name = NULL}

NextScoring ==
    \/ FetchShortageRow(TrainingRows, MaxTrainingRows)
    \/ FetchEnforcementRow(TrainingEnfRows, MaxEnforcementRows)
    \/ LoadData
    \/ CreateTargetVariable
    \/ EngineerFeatures
    \/ PrepareForModeling
    \/ TrainModels(NoFit)
    \/ PredictShortageRisk(ScoringCalls, ScoringDays, ScoringGrid)

SpecScoring == Init /\ [][NextScoring]_vars

(***************************************************************************)
(* Training again on a Trained predictor after the tables have changed,    *)
(* with fits that may fail; one drug posted on days 0 and 45                *)
(***************************************************************************)
MaxRetrainRows == 6

RetrainRows ==
    {r \in TrainingRows : r.generic_name = "Heparin"}

\* load_data called again on a Trained predictor: the two tables are read
\* anew, every other attribute stays as it is
Reload ==
    /\ pc = "trained"
    /\ shortage_df' = << >>
    /\ enforcement_df' = << >>
    /\ pc' = "init"
    /\ predictions' = NotCalled
    /\ pred_df' = << >>
    /\ pred_features' = << >>
    /\ proba_call' = NoProbaCall
    /\ call_args' = NoCall
    /\ UNCHANGED <<target_df, features_df, modelVars, scoring, ingestVars>>

NextRetrain ==
    \/ FetchShortageRow(RetrainRows, MaxRetrainRows)
    \/ FetchEnforcementRow(TrainingEnfRows, MaxEnforcementRows)
    \/ LoadData
    \/ CreateTargetVariable
    \/ EngineerFeatures
    \/ PrepareForModeling
    \/ TrainModels(AnyFit)
    \/ PredictShortageRisk(PredictCalls, NowDays, ProbGrid)
    \/ Reload

SpecRetrain == Init /\ [][NextRetrain]_vars

(***************************************************************************)
(* A predictor shared between a thread that trains it again and a thread   *)
(* that scores: prepare_for_modeling and train_models statement by         *)
(* statement, predict_shortage_risk in two steps                           *)
(***************************************************************************)
MaxSharedRows == 6

\* line 225: the order of the columns
CategoricalOrder == <<"therapeutic_category", "drug_name", "company_name">>

\* where the training thread is after lines 233, 282, 288 and 294
EncodedAt == <<"encoded_therapeutic_category", "encoded_drug_name",
               "encoded_company_name">>
FittedAt  == <<"fitted_logistic_regression", "fitted_random_forest", "trained">>

\* line 232 for one column
WithEncodedColumn(row, col, classes) ==
    [c \in DOMAIN row \cup {EncodedName(col)} |->
        IF c = EncodedName(col) THEN ClassCode(classes, row[col]) ELSE row[c]]

\* lines 228-233 for the n-th column: the encoder is fitted and stored in
\* self.label_encoders, next to the encoders of the other columns
EncodeColumn(n) ==
    /\ pc = IF n = 1 THEN "featured" ELSE EncodedAt[n - 1]
    /\ Len(features_df) > 0
    /\ LET col     == CategoricalOrder[n]
           classes == FitEncoder(features_df, col)
       IN  /\ features_df' = [k \in 1..Len(features_df) |->
                                 WithEncodedColumn(features_df[k], col, classes)]
           /\ label_encoders' =
                 [c \in DOMAIN label_encoders \cup {col} |->
                     IF c = col THEN classes ELSE label_encoders[c]]
    /\ pc' = EncodedAt[n]
    /\ UNCHANGED <<shortage_df, enforcement_df, target_df, X, y, scaler,
                   test_split, models, fit_log, predictVars, ingestVars>>

\* lines 249-253: X and y are assigned; X has the same columns as before
AssignMatrix ==
    /\ pc = EncodedAt[Len(EncodedAt)]
    /\ X' = ModelMatrix(features_df)
    /\ y' = [k \in 1..Len(features_df) |-> IF features_df[k].target THEN 1 ELSE 0]
    /\ pc' = "prepared"
    /\ UNCHANGED <<shortage_df, enforcement_df, target_df, features_df,
                   label_encoders, scaler, test_split, models, fit_log,
                   predictVars, ingestVars>>

\* lines 265-276: the split, and self.scaler fitted in place
FitScaler ==
    /\ pc = "prepared"
    /\ fit_log' = << >>
    /\ IF SplitRaises(y)
       THEN /\ pc' = "train_failed"
            /\ UNCHANGED <<scaler, test_split>>
       ELSE /\ scaler' = [fitted |-> TRUE, X_train |-> X]
            /\ test_split' = [n_train |-> Len(y) - TestSize(Len(y)),
                              n_test  |-> TestSize(Len(y))]
            /\ pc' = "scaled"
    /\ UNCHANGED <<shortage_df, enforcement_df, target_df, features_df, X, y,
                   label_encoders, models, predictVars, ingestVars>>

\* lines 280-282, 286-288 and 292-294: the n-th classifier is fitted and
\* stored in self.models, next to the other classifiers
FitModel(n) ==
    /\ pc = IF n = 1 THEN "scaled" ELSE FittedAt[n - 1]
    /\ fit_log' = Append(fit_log, FitOrder[n])
    /\ IF n = 1 /\ FitRaises(y)
       THEN /\ pc' = "train_failed"
            /\ UNCHANGED models
       ELSE /\ models' = [name \in DOMAIN models \cup {FitOrder[n]} |->
                            IF name = FitOrder[n]
                            THEN Fitted(name, label_encoders, X, y)
                            ELSE models[name]]
            /\ pc' = FittedAt[n]
    /\ UNCHANGED <<shortage_df, enforcement_df, target_df, features_df, X, y,
                   label_encoders, scaler, test_split, predictVars, ingestVars>>

\* while the training thread is in prepare_for_modeling or train_models on a
\* predictor that has been trained before
Retraining ==
    /\ pc \in {"featured", "prepared", "scaled", "train_failed"}
             \cup {EncodedAt[n] : n \in 1..Len(EncodedAt)}
             \cup {FittedAt[n] : n \in 1..Len(FittedAt)}
    /\ BestModel(models) # NULL

\* the call of run_full_pipeline (line 482) and its clock
SharedCall  == [drug_name |-> NULL, company_name |-> NULL, top_n |-> 20]
SharedClock == 1400
SharedGrid  == {300}

\* lines 369-373 in the scoring thread: the model is taken from self.models
BeginScoring ==
    /\ Retraining
    /\ scoring.at # "chosen"
    /\ call_args' = CallArgs(SharedCall, SharedClock)
    /\ IF BestModel(models) = NULL
       THEN /\ scoring' = [IdleScoring EXCEPT !.at = "done"]
            /\ PredictNothing
       ELSE /\ scoring' = [at             |-> "chosen",
                           best_model     |-> BestModel(models),
                           model_encoders |-> models[BestModel(models)].encoders,
                           encoders       |-> << >>]
            /\ predictions' = NotCalled
            /\ pred_df' = << >>
            /\ pred_features' = << >>
            /\ proba_call' = NoProbaCall
    /\ PredictKeeps

\* lines 375-451 in the scoring thread: the rows are built, encoded with
\* self.label_encoders as it is now, and handed to the model taken before
FinishScoring ==
    /\ scoring.at = "chosen"
    /\ scoring' = [scoring EXCEPT !.at = "done", !.encoders = label_encoders]
    /\ Score(scoring.best_model, SharedCall, SharedClock, SharedGrid)
    /\ UNCHANGED call_args
    /\ PredictKeeps

\* the tables are loaded again as long as no scoring call has run next to a
\* training: the scenario ends with the first training that had one
ReloadUnscored ==
    /\ scoring = IdleScoring
    /\ Reload

NextShared ==
    \/ FetchShortageRow(TrainingRows, MaxSharedRows)
    \/ FetchEnforcementRow(TrainingEnfRows, MaxEnforcementRows)
    \/ LoadData
    \/ CreateTargetVariable
    \/ EngineerFeatures
    \/ \E n \in 1..Len(CategoricalOrder) : EncodeColumn(n)
    \/ AssignMatrix
    \/ FitScaler
    \/ \E n \in 1..Len(FitOrder) : FitModel(n)
    \/ ReloadUnscored
    \/ BeginScoring
    \/ FinishScoring

SpecShared == Init /\ [][NextShared]_vars

(***************************************************************************)
(* Pulling a dataset from the API into the CSV file and the database:      *)
(* get_drug_shortage_data and get_drug_enforcement_data (the same code for *)
(* two tables), load_data_to_database and insert_data_to_database.  A      *)
(* record is its number in the API's result, a row of an earlier run a     *)
(* negative number.  Every request, file and database operation is a step  *)
(* that succeeds or raises.                                                *)
(***************************************************************************)
BatchSize  == 100         \* fetch_batch(limit=100, ...), range(0, total, 100)
MaxBatches == 2

\* what the API reports: nothing, one record, a full batch, one more, and
\* MaxBatches full batches
Totals == {0, 1, BatchSize, BatchSize + 1, MaxBatches * BatchSize}

\* the table as the call finds it: empty, or the rows of an earlier run
PreviousTables == {{}, {-1, -2}}

IngestArgs ==
    [save_to_csv : BOOLEAN, load_to_database : BOOLEAN, credentials : BOOLEAN,
     previous : PreviousTables]

\* range(0, total + 1, 100)
BatchOffsetsInclusive(n) ==
    [k \in 1..((n \div BatchSize) + 1) |-> (k - 1) * BatchSize]

\* range(0, total, 100)
BatchOffsets(n) ==
    [k \in 1..((n + BatchSize - 1) \div BatchSize) |-> (k - 1) * BatchSize]

\* the records of the batch at offset skip
Batch(skip, n) == (skip + 1)..Min2(skip + BatchSize, n)

\* the offsets of the batch requests sent so far
RECURSIVE BatchSkips(_)
BatchSkips(reqs) ==
    IF Len(reqs) = 0 THEN << >>
    ELSE LET init == BatchSkips(SubSeq(reqs, 1, Len(reqs) - 1))
         IN  IF reqs[Len(reqs)].limit = BatchSize
             THEN Append(init, reqs[Len(reqs)].skip) ELSE init

\* lines 72-95 of the pull scripts: one prepared row per record
PreparedRows(rows) == rows

\* the DELETE takes effect only with the insert's transaction
DeleteDeferred(rows) == rows

\* drug_data_utils lines 83-85: DELETE FROM table, committed
DeleteCommitted(rows) == {}

\* the call and what it finds
CallGetDrugData ==
    /\ ingest_at = "idle"
    /\ \E args \in IngestArgs :
         /\ ingest_args' = args
         /\ db_table' = args.previous
    /\ ingest_at' = "called"
    /\ UNCHANGED <<requests, total, records, csv_file, prepared_df, db_conn>>
    /\ UNCHANGED <<shortage_df, enforcement_df, target_df, features_df, modelVars,
                   predictVars, pc>>

\* lines 130-131: fetch_batch(limit=1) for the metadata; requests.get or
\* raise_for_status may raise
RequestMeta ==
    /\ ingest_at = "called"
    /\ requests' = Append(requests, [limit |-> 1, skip |-> 0])
    /\ \E ok \in BOOLEAN :
         IF ok THEN /\ total' \in Totals
                    /\ ingest_at' = "fetching"
               ELSE /\ ingest_at' = "raised_meta"
                    /\ UNCHANGED total
    /\ UNCHANGED <<ingest_args, records, csv_file, prepared_df, db_table, db_conn>>
    /\ UNCHANGED <<shortage_df, enforcement_df, target_df, features_df, modelVars,
                   predictVars, pc>>

\* lines 135-136: the next fetch_batch(limit=100, skip=skip) of the loop
FetchBatch ==
    /\ ingest_at = "fetching"
    /\ Len(BatchSkips(requests)) < Len(BatchOffsets(total))
    /\ LET skip == BatchOffsets(total)[Len(BatchSkips(requests)) + 1]
       IN  /\ requests' = Append(requests, [limit |-> BatchSize, skip |-> skip])
           /\ \E ok \in BOOLEAN :
                IF ok THEN /\ records' = records \cup Batch(skip, total)
                           /\ UNCHANGED ingest_at
                      ELSE /\ ingest_at' = "raised_batch"
                           /\ UNCHANGED records
    /\ UNCHANGED <<ingest_args, total, csv_file, prepared_df, db_table, db_conn>>
    /\ UNCHANGED <<shortage_df, enforcement_df, target_df, features_df, modelVars,
                   predictVars, pc>>

\* lines 138-142: after the loop, df.to_csv when save_to_csv; it may raise
SaveCsv ==
    /\ ingest_at = "fetching"
    /\ Len(BatchSkips(requests)) = Len(BatchOffsets(total))
    /\ IF ingest_args.save_to_csv
       THEN \E ok \in BOOLEAN :
              IF ok THEN /\ csv_file' = [written |-> TRUE, rows |-> records]
                         /\ ingest_at' = "saved"
                    ELSE /\ ingest_at' = "raised_csv"
                         /\ UNCHANGED csv_file
       ELSE /\ ingest_at' = "saved"
            /\ UNCHANGED csv_file
    /\ UNCHANGED <<ingest_args, requests, total, records, prepared_df, db_table,
                   db_conn>>
    /\ UNCHANGED <<shortage_df, enforcement_df, target_df, features_df, modelVars,
                   predictVars, pc>>

\* lines 144-152 and drug_data_utils lines 225-233: without load_to_database
\* or without credentials the call returns; get_db_connection may raise
Connect ==
    /\ ingest_at = "saved"
    /\ IF ~ingest_args.load_to_database \/ ~ingest_args.credentials
       THEN /\ ingest_at' = "returned"
            /\ UNCHANGED db_conn
       ELSE \E ok \in BOOLEAN :
              IF ok THEN /\ db_conn' = "open"
                         /\ ingest_at' = "connected"
                    ELSE /\ ingest_at' = "raised_connect"
                         /\ UNCHANGED db_conn
    /\ UNCHANGED <<ingest_args, requests, total, records, csv_file, prepared_df,
                   db_table>>
    /\ UNCHANGED <<shortage_df, enforcement_df, target_df, features_df, modelVars,
                   predictVars, pc>>

\* drug_data_utils lines 246-252: the error is raised again and the
\* connection closed
RaiseAndClose(where) ==
    /\ ingest_at' = where
    /\ db_conn' = "closed"

\* drug_data_utils line 236 (lines 57-67)
CreateTable ==
    /\ ingest_at = "connected"
    /\ \E ok \in BOOLEAN :
         IF ok THEN /\ ingest_at' = "table_ready"
                    /\ UNCHANGED db_conn
               ELSE RaiseAndClose("raised_create")
    /\ UNCHANGED <<ingest_args, requests, total, records, csv_file, prepared_df,
                   db_table>>
    /\ UNCHANGED <<shortage_df, enforcement_df, target_df, features_df, modelVars,
                   predictVars, pc>>

\* drug_data_utils line 239
PrepareData ==
    /\ ingest_at = "table_ready"
    /\ \E ok \in BOOLEAN :
         IF ok THEN /\ prepared_df' = PreparedRows(records)
                    /\ ingest_at' = "prepared"
                    /\ UNCHANGED db_conn
               ELSE /\ RaiseAndClose("raised_prepare")
                    /\ UNCHANGED prepared_df
    /\ UNCHANGED <<ingest_args, requests, total, records, csv_file, db_table>>
    /\ UNCHANGED <<shortage_df, enforcement_df, target_df, features_df, modelVars,
                   predictVars, pc>>

\* drug_data_utils lines 80-86: the DELETE in a transaction of its own; when
\* it raises, the transaction is rolled back
ClearTable ==
    /\ ingest_at = "prepared"
    /\ \E ok \in BOOLEAN :
         IF ok THEN /\ db_table' = DeleteCommitted(db_table)
                    /\ ingest_at' = "cleared"
                    /\ UNCHANGED db_conn
               ELSE /\ RaiseAndClose("raised_delete")
                    /\ UNCHANGED db_table
    /\ UNCHANGED <<ingest_args, requests, total, records, csv_file, prepared_df>>
    /\ UNCHANGED <<shortage_df, enforcement_df, target_df, features_df, modelVars,
                   predictVars, pc>>

\* drug_data_utils lines 89-94 and 244-252: df.to_sql(if_exists='append') in
\* one transaction, rolled back when it raises; the connection is closed
InsertRows ==
    /\ ingest_at = "cleared"
    /\ db_conn' = "closed"
    /\ \E ok \in BOOLEAN :
         IF ok THEN /\ db_table' = db_table \cup prepared_df
                    /\ ingest_at' = "returned"
               ELSE /\ ingest_at' = "raised_insert"
                    /\ UNCHANGED db_table
    /\ UNCHANGED <<ingest_args, requests, total, records, csv_file, prepared_df>>
    /\ UNCHANGED <<shortage_df, enforcement_df, target_df, features_df, modelVars,
                   predictVars, pc>>

NextIngest ==
    \/ CallGetDrugData
    \/ RequestMeta
    \/ FetchBatch
    \/ SaveCsv
    \/ Connect
    \/ CreateTable
    \/ PrepareData
    \/ ClearTable
    \/ InsertRows

SpecIngest == Init /\ [][NextIngest]_vars

(***************************************************************************)
(* Properties of the label construction                                    *)
(***************************************************************************)
Labelled == pc \in {"labelled", "featured", "features_failed"}

RealObs == {k \in 1..Len(target_df) : target_df[k].current_shortage}

\* the rows of the shortage table that are events of `drug`
EventsOf(drug) == {i \in 1..Len(shortage_df) : shortage_df[i].generic_name = drug}

DateOf(i) == shortage_df[i].initial_posting_date

\* the events of the observation's drug posted after its reference date
LaterEvents(o) == {i \in EventsOf(o.drug_name) : DateOf(i) > o.reference_date}

\* the days to the next event of the drug (LaterEvents(o) not empty)
NextGap(o) ==
    LET i == CHOOSE n \in LaterEvents(o) : \A j \in LaterEvents(o) : DateOf(n) <= DateOf(j)
    IN  DateOf(i) - o.reference_date

\* C1: the observation of an event posted on day d is labelled true exactly
\* when another event of the same drug is posted in (d, d + 90]; the last
\* event of a drug and an event followed 106 days later are labelled false,
\* an event followed 45 days later is labelled true.
C1_FutureShortageLabel ==
    Labelled =>
      \A k \in RealObs :
        LET o == target_df[k]
        IN  /\ o.future_shortage <=>
                 \E i \in EventsOf(o.drug_name) :
                    /\ DateOf(i) > o.reference_date
                    /\ DateOf(i) <= o.reference_date + 90
            /\ LaterEvents(o) = {} => ~o.future_shortage
            /\ (LaterEvents(o) # {} /\ NextGap(o) = 106) => ~o.future_shortage
            /\ (LaterEvents(o) # {} /\ NextGap(o) = 45) => o.future_shortage

\* the scenario of events on days 0, 45 and 151, and an event 90 days before
\* the next one
C1_Witness ==
    /\ pc = "labelled"
    /\ Len(target_df) = 3
    /\ \A k \in 1..3 : target_df[k].drug_name = "Heparin"
    /\ target_df[1].reference_date = 0   /\ target_df[1].future_shortage
    /\ target_df[2].reference_date = 45  /\ ~target_df[2].future_shortage
    /\ target_df[3].reference_date = 151 /\ ~target_df[3].future_shortage

\* C2: historical_shortage_count of an observation is the number of events of
\* the drug posted strictly before its reference date, also when events of
\* the drug share a posting date.
C2_HistoricalCountStrict ==
    Labelled =>
      \A k \in RealObs :
        LET o == target_df[k]
        IN  o.historical_shortage_count =
              Cardinality({i \in EventsOf(o.drug_name) : DateOf(i) < o.reference_date})

\* the drugs the system knows
KnownDrugs == Drugs

SyntheticObs(drug) ==
    {k \in 1..Len(target_df) :
        ~target_df[k].current_shortage /\ target_df[k].drug_name = drug}

\* C6: every known drug without a shortage event gets exactly 3 synthetic
\* observations (label false, count 0, 999 days, dated 30 to 1000 days
\* before now), and a drug with a shortage event gets none.
C6_SyntheticNegatives ==
    Labelled =>
      \A d \in KnownDrugs :
        IF EventsOf(d) = {}
        THEN /\ Cardinality(SyntheticObs(d)) = 3
             /\ \A k \in SyntheticObs(d) :
                  /\ ~target_df[k].future_shortage
                  /\ target_df[k].historical_shortage_count = 0
                  /\ target_df[k].days_since_last_shortage = 999
                  /\ \E now \in NowDays :
                       /\ target_df[k].reference_date <= now - 30
                       /\ target_df[k].reference_date >= now - 1000
        ELSE SyntheticObs(d) = {}

\* the (drug, company, category, date) values of the rows and observations
EventKeyOfRow(i) ==
    <<shortage_df[i].generic_name, shortage_df[i].company_name,
      shortage_df[i].therapeutic_category, shortage_df[i].initial_posting_date>>

EventKeyOfObs(k) ==
    <<target_df[k].drug_name, target_df[k].company_name,
      target_df[k].therapeutic_category, target_df[k].reference_date>>

RowsWithKey(rows, key) == Cardinality({i \in rows : EventKeyOfRow(i) = key})
ObsWithKey(key)        == Cardinality({k \in RealObs : EventKeyOfObs(k) = key})

\* C7 as stated: one observation per row of the shortage table, rows without a
\* drug name included.
C7_OnePerRow ==
    Labelled =>
      /\ Cardinality(RealObs) = Len(shortage_df)
      /\ \A i \in 1..Len(shortage_df) :
           ObsWithKey(EventKeyOfRow(i)) = RowsWithKey(1..Len(shortage_df), EventKeyOfRow(i))

NamedRows == {i \in 1..Len(shortage_df) : shortage_df[i].generic_name # NULL}

\* C7 (amended): one observation per row of the shortage table that has a
\* drug name: as many real observations as named rows, each named row the
\* reference event of exactly one of them, and no observation for a row
\* without a drug name.
C7_OnePerNamedRow ==
    Labelled =>
      /\ Cardinality(RealObs) = Cardinality(NamedRows)
      /\ \A i \in NamedRows :
           ObsWithKey(EventKeyOfRow(i)) = RowsWithKey(NamedRows, EventKeyOfRow(i))
      /\ \A k \in RealObs : target_df[k].drug_name # NULL

\* two rows of one drug with the same date and company, and a row without a name
C7_Witness ==
    /\ pc = "labelled"
    /\ Len(shortage_df) = 3
    /\ Cardinality(NamedRows) = 2
    /\ \E i, j \in NamedRows : i # j /\ EventKeyOfRow(i) = EventKeyOfRow(j)
    /\ Len(target_df) = 2

\* the observations of the same drug that come before observation k
PriorObs(k) == {j \in RealObs : j < k /\ target_df[j].drug_name = target_df[k].drug_name}

LatestPrior(k) ==
    LET dates == {target_df[j].reference_date : j \in PriorObs(k)}
    IN  CHOOSE m \in dates : \A d \in dates : d <= m

GapIsRight(k) ==
    PriorObs(k) # {} =>
       /\ target_df[k].days_since_last_shortage =
              target_df[k].reference_date - LatestPrior(k)
       /\ target_df[k].days_since_last_shortage >= 0

\* C8 as stated: days_since_last_shortage is the gap to the latest earlier
\* event of the drug, and it is 999 exactly when there is no earlier event.
C8_SentinelExactlyFirst ==
    Labelled =>
      \A k \in RealObs :
        /\ GapIsRight(k)
        /\ target_df[k].days_since_last_shortage = 999 <=> PriorObs(k) = {}

\* C8 (amended): days_since_last_shortage is the non-negative gap to the
\* latest earlier event of the drug, and 999 for the first event of a drug; a
\* later event also carries 999 when its gap is 999 days.
C8_DaysSinceLastShortage ==
    Labelled =>
      \A k \in RealObs :
        /\ GapIsRight(k)
        /\ PriorObs(k) = {} => target_df[k].days_since_last_shortage = 999

\* three events of one drug, the last 999 days after the second
C8_Witness ==
    /\ pc = "labelled"
    /\ Len(target_df) = 3
    /\ \A k \in 1..3 : target_df[k].drug_name = "Zinc Tablet"
    /\ target_df[1].days_since_last_shortage = 999 /\ target_df[1].reference_date = 0
    /\ target_df[2].days_since_last_shortage = 45
    /\ target_df[3].days_since_last_shortage = 999 /\ target_df[3].reference_date = 1044


(***************************************************************************)
(* Properties of the feature construction                                  *)
(***************************************************************************)
Featured == pc = "featured"

\* the event store cut down to what was known at an observation: the events
\* dated strictly before its reference date, and its own event
StoreBefore(o) ==
    <<[generic_name         |-> o.drug_name,
       company_name         |-> o.company_name,
       therapeutic_category |-> o.therapeutic_category,
       initial_posting_date |-> o.reference_date]>>
    \o WhereLess(shortage_df, "initial_posting_date", o.reference_date)

EnforcementBefore(o) ==
    WhereLess(enforcement_df, "recall_initiation_date", o.reference_date)

\* the observations create_target_variable may build for the observation's
\* event from the cut-down store
ObservationsBefore(o) ==
    UNION {{t[k] : k \in {n \in 1..Len(t) :
                            /\ t[n].drug_name = o.drug_name
                            /\ t[n].company_name = o.company_name
                            /\ t[n].reference_date = o.reference_date}} :
             t \in UNION {TargetTables(StoreBefore(o), now) : now \in NowDays}}

NumericFeatures(f) == [f EXCEPT !.target = FALSE]

\* C3: every feature except the target depends only on events dated strictly
\* before the reference date: the store cut down to those events (and the
\* observation's own event) gives the same feature values, also when another
\* event of the drug is dated on the reference date.
C3_NoLeakage ==
    Featured =>
      \A k \in 1..Len(target_df) :
        LET o == target_df[k]
        IN  NumericFeatures(features_df[k]) \in
              {NumericFeatures(FeatureVector(b, StoreBefore(o), EnforcementBefore(o))) :
                 b \in ObservationsBefore(o)}

\* the dates of the drug's events strictly before the reference date
PriorDates(f) ==
    {DateOf(i) : i \in {j \in EventsOf(f.drug_name) : DateOf(j) < f.reference_date}}

PriorCount(f) ==
    Cardinality({j \in EventsOf(f.drug_name) : DateOf(j) < f.reference_date})

SetMax(S) == CHOOSE m \in S : \A v \in S : v <= m
SetMin(S) == CHOOSE m \in S : \A v \in S : m <= v

\* C9: avg_shortage_duration is the mean of the gaps between consecutive
\* prior dates of the drug taken in ascending order (their sum is latest
\* minus earliest), never negative, and 0 with fewer than 2 prior events.
C9_AvgDurationAscending ==
    Featured =>
      \A k \in 1..Len(features_df) :
        LET f   == features_df[k]
            avg == f.avg_shortage_duration
        IN  /\ avg.den > 0
            /\ avg.num >= 0
            /\ IF PriorCount(f) < 2
               THEN avg.num = 0
               ELSE avg.num * (PriorCount(f) - 1) =
                      (SetMax(PriorDates(f)) - SetMin(PriorDates(f))) * avg.den

CompanyPriorCount(f) ==
    Cardinality({i \in 1..Len(shortage_df) :
                   /\ shortage_df[i].company_name = f.company_name
                   /\ DateOf(i) < f.reference_date})

\* C10: company_shortage_rate is the company's count of shortages before the
\* reference date over max(1, days_since_epoch / 365): always defined, never
\* above the count, equal to the count up to one year after the epoch.
C10_CompanyShortageRate ==
    Featured =>
      \A k \in 1..Len(features_df) :
        LET f    == features_df[k]
            rate == f.company_shortage_rate
            n    == CompanyPriorCount(f)
            dse  == f.reference_date
        IN  /\ f.days_since_epoch = dse
            /\ rate.den > 0
            /\ rate.num <= n * rate.den
            /\ dse <= 365 => rate.num = n * rate.den
            /\ dse > 365  => rate.num * dse = n * 365 * rate.den

\* one company with events 45 days before the epoch, on it and 365 days after
C10_Witness ==
    /\ Featured
    /\ \E k \in 1..Len(features_df) :
         /\ features_df[k].days_since_epoch = 0
         /\ features_df[k].company_shortage_count = 1
         /\ features_df[k].company_shortage_rate = Rat(1, 1)
    /\ \E k \in 1..Len(features_df) :
         /\ features_df[k].days_since_epoch = 365
         /\ features_df[k].company_shortage_count = 2
         /\ RatEqInt(features_df[k].company_shortage_rate, 2)


(***************************************************************************)
(* Properties of the scoring                                               *)
(***************************************************************************)
Scored == predictions.returned = "frame"

\* C4: the risk level of a probability p is Low for 0 <= p < 0.3, Medium for
\* 0.3 <= p < 0.7 and High for 0.7 <= p <= 1.0 (probabilities in thousandths).
C4_RiskThresholds ==
    Scored =>
      \A k \in 1..Len(predictions.rows) :
        LET p     == predictions.rows[k].shortage_probability
            level == predictions.rows[k].risk_level
        IN  /\ (0 <= p /\ p < 300) => level = "Low"
            /\ (300 <= p /\ p < 700) => level = "Medium"
            /\ (700 <= p /\ p <= 1000) => level = "High"

\* C5: every returned row has a risk level, one of Low, Medium and High, for
\* every probability from 0 to 1.
C5_RiskLevelDefined ==
    Scored =>
      \A k \in 1..Len(predictions.rows) :
        predictions.rows[k].risk_level \in {"Low", "Medium", "High"}


(***************************************************************************)
(* Properties of the enforcement features                                  *)
(***************************************************************************)
RecallDate(k) == enforcement_df[k].recall_initiation_date

\* the enforcement rows of the company of a feature vector
CompanyMatched(f) ==
    {k \in 1..Len(enforcement_df) :
        FirmMatches(enforcement_df[k].recalling_firm, f.company_name)}

InWindow(f, days) ==
    {k \in CompanyMatched(f) :
        /\ f.reference_date - days < RecallDate(k)
        /\ RecallDate(k) < f.reference_date}

BeforeAllRecalls(f) ==
    \A k \in 1..Len(enforcement_df) : f.reference_date < RecallDate(k)

\* C11: each counter recent_enforcements_Nd is the number of enforcement rows
\* of the company with reference_date - N < recall date < reference_date, and
\* a reference date earlier than every recall gives counters 0, no class I
\* recall and 999 days since the last enforcement.
C11_EnforcementCounters ==
    Featured =>
      \A i \in 1..Len(features_df) :
        LET f == features_df[i]
        IN  /\ f.recent_enforcements_30d  = Cardinality(InWindow(f, 30))
            /\ f.recent_enforcements_90d  = Cardinality(InWindow(f, 90))
            /\ f.recent_enforcements_365d = Cardinality(InWindow(f, 365))
            /\ BeforeAllRecalls(f) =>
                 /\ f.recent_enforcements_30d = 0
                 /\ f.recent_enforcements_90d = 0
                 /\ f.recent_enforcements_365d = 0
                 /\ f.class_i_recalls = 0
                 /\ f.days_since_last_enforcement = Sentinel

\* a recall on the older edge of the 30-day window next to one inside it
C11_Witness ==
    /\ Featured
    /\ \E i \in 1..Len(features_df) :
         LET f == features_df[i]
         IN  /\ \E k \in CompanyMatched(f) : RecallDate(k) = f.reference_date - 30
             /\ f.recent_enforcements_30d = 1
             /\ f.recent_enforcements_90d = 2

\* the enforcement rows before the reference date whose firm holds, in either
\* case, the first 10 characters of the company name
TextuallyJoined(f) ==
    {k \in 1..Len(enforcement_df) :
        /\ RecallDate(k) < f.reference_date
        /\ enforcement_df[k].recalling_firm # NULL
        /\ LET name   == Chars(f.company_name)
               prefix == SubSeq(name, 1, Min2(PrefixLen, Len(name)))
           IN  ContainsSeq(Lower(Chars(enforcement_df[k].recalling_firm)),
                           Lower(prefix))}

\* C12: the enforcement rows joined to an observation are exactly the rows
\* dated before its reference date whose firm contains, ignoring case, the
\* first 10 characters of its company name; seen through the features that
\* are computed from the joined rows.
C12_TextualJoin ==
    Featured =>
      \A i \in 1..Len(features_df) :
        LET f      == features_df[i]
            joined == TextuallyJoined(f)
        IN  /\ f.class_i_recalls =
                 Cardinality({k \in joined : enforcement_df[k].classification = "Class I"})
            /\ f.days_since_last_enforcement =
                 IF joined = {} THEN Sentinel
                 ELSE f.reference_date - SetMax({RecallDate(k) : k \in joined})


(***************************************************************************)
(* Properties of the model input matrix                                    *)
(***************************************************************************)
Prepared == pc = "prepared"

\* C13: after engineer_features and prepare_for_modeling no entry of X is
\* missing (NaN) or infinite.
C13_MatrixComplete ==
    Prepared =>
      \A k \in 1..Len(X) : \A c \in FeatureColumns :
        IF c \in RatioColumns THEN X[k][c].den # 0 ELSE X[k][c] # NaT

\* an observation without a date, whose gap, month and year were missing
C13_Witness ==
    /\ Prepared
    /\ \E k \in 1..Len(X) :
         /\ target_df[k].reference_date = NaT
         /\ target_df[k].days_since_last_shortage = NaT
         /\ X[k].days_since_last_shortage = 0
         /\ X[k].month = 0
         /\ X[k].year = 0


(***************************************************************************)
(* Properties of the encoding at scoring time                              *)
(***************************************************************************)
Seen(classes, v) == \E n \in 1..Len(classes) : classes[n] = v

\* the code the fitted encoder of a column gives a value: its code when it
\* was seen at fitting, the sentinel otherwise
ExpectedCode(col, v) ==
    IF Seen(label_encoders[col], v)
    THEN ClassCode(label_encoders[col], v) ELSE UnseenCode

\* C14: at scoring time a drug name or company name that the encoders have
\* not seen is given the code -1, and the call returns its frame.
C14_UnseenCategorySentinel ==
    Scored =>
      /\ Len(predictions.rows) = Len(pred_df)
      /\ \A k \in 1..Len(pred_df) : \A col \in {"drug_name", "company_name"} :
           ~Seen(label_encoders[col], pred_df[k][col]) =>
              pred_features[k][EncodedName(col)] = UnseenCode

\* a call with a company filter that training never saw
C14_Witness ==
    /\ Scored
    /\ pc = "trained"
    /\ \E k \in 1..Len(pred_df) :
         /\ pred_df[k].company_name = "Unknown"
         /\ ~Seen(label_encoders["company_name"], "Unknown")
         /\ Seen(label_encoders["drug_name"], pred_df[k].drug_name)
         /\ pred_features[k].company_name_encoded = UnseenCode

\* the category of a drug at scoring time: that of its first row, as for the
\* company (line 393), filled and written as text as at fitting
CategoryOf(drug) ==
    FillNa(WhereEq(shortage_df, "generic_name", drug)[1].therapeutic_category)

\* C15: in every scoring row each of the three categorical columns holds the
\* code its fitted encoder gives the row's value, or the sentinel for a value
\* not seen; no column holds a constant.
C15_SameEncoders ==
    Scored =>
      \A k \in 1..Len(pred_df) :
        /\ pred_features[k].drug_name_encoded =
             ExpectedCode("drug_name", pred_df[k].drug_name)
        /\ pred_features[k].company_name_encoded =
             ExpectedCode("company_name", pred_df[k].company_name)
        /\ pred_features[k].therapeutic_category_encoded =
             ExpectedCode("therapeutic_category", CategoryOf(pred_df[k].drug_name))

\* C16: the rows are scaled before predict_proba exactly when the model that
\* scores them was fitted on scaled input (logistic regression).
C16_ScalerApplied ==
    Scored => proba_call.scaled = models[proba_call.model].scaled_input

(***************************************************************************)
(* Properties of training and of the predictor's state                     *)
(***************************************************************************)
Untrained == DOMAIN models = {}
Called    == predictions.returned # "not called"

\* C17: a call of predict_shortage_risk on an Untrained predictor raises.
C17_UntrainedRaises ==
    (Untrained /\ Called) => predictions.returned = "raised"

TrainingEnded == pc \in {"trained", "train_failed"}

\* C18: with a single class in the target train_models raises before it
\* calls the fit of any classifier, and models stays empty.
C18_OneClassRaisesBeforeFit ==
    (TrainingEnded /\ FitRaises(y)) =>
       /\ pc = "train_failed"
       /\ Untrained
       /\ fit_log = << >>

\* C19: a call of predict_shortage_risk on a Trained predictor changes none
\* of models, scaler, label_encoders, features_df, X, y, shortage_df and
\* enforcement_df, and the predictor stays Trained.
C19_ScoringReadOnly ==
    [][pc = "trained" =>
         /\ pc' = "trained"
         /\ UNCHANGED <<models, scaler, label_encoders, features_df, X, y,
                        shortage_df, enforcement_df>>]_vars

\* a Trained predictor that has scored a single drug
C19_Witness ==
    /\ pc = "trained"
    /\ Scored
    /\ Len(pred_df) = 1
    /\ scaler = [fitted |-> TRUE, X_train |-> X]

\* the three classifiers, the scaler and the encoders all come from one
\* preparation of the data
FittedTogether ==
    /\ DOMAIN models = {FitOrder[i] : i \in 1..Len(FitOrder)}
    /\ scaler.fitted
    /\ \A name \in DOMAIN models :
         /\ models[name].X_train = scaler.X_train
         /\ models[name].encoders = label_encoders

\* C20: whenever train_models has returned or raised, the predictor holds
\* either no fitted model or models, scaler and encoders fitted together.
C20_NeverPartial ==
    TrainingEnded => (Untrained \/ FittedTogether)

(***************************************************************************)
(* Properties of repeated and filtered scoring                             *)
(***************************************************************************)
SameArguments ==
    /\ call_args'.drug_name = call_args.drug_name
    /\ call_args'.company_name = call_args.company_name
    /\ call_args'.top_n = call_args.top_n

\* C21: two predict_shortage_risk calls with the same arguments on the same
\* trained predictor and the same tables hand the same feature rows to
\* predict_proba, whatever the clock says at each call.
C21_ScoringDeterministic ==
    [][(/\ pc = "trained"
        /\ call_args # NoCall
        /\ SameArguments
        /\ UNCHANGED <<shortage_df, enforcement_df, features_df, modelVars>>)
       => pred_features' = pred_features]_vars

SortedDescending ==
    \A k \in 1..(Len(predictions.rows) - 1) :
        predictions.rows[k].shortage_probability
            >= predictions.rows[k + 1].shortage_probability

\* C22: what predict_shortage_risk(top_n = n) returns is sorted by
\* shortage_probability, highest first, and cut to n rows: it has at most n
\* rows.
C22_SortedTopN ==
    Scored => /\ SortedDescending
              /\ Len(predictions.rows) <= call_args.top_n

\* the columns engineer_features computes from the drug, the company and
\* the reference date
BuiltColumns ==
    FeatureColumns \ ({EncodedName(col) : col \in CategoricalCols}
                         \cup {"days_since_last_shortage"})

\* the observation of the drug and company of scoring row k at the clock of
\* the call
ObservationNow(k) ==
    [drug_name                |-> pred_df[k].drug_name,
     company_name             |-> pred_df[k].company_name,
     therapeutic_category     |-> NULL,
     reference_date           |-> call_args.current_date,
     future_shortage          |-> FALSE,
     days_since_last_shortage |-> pred_df[k].days_since_last_shortage]

\* C24: in every scoring row each column the model was trained on holds the
\* value engineer_features computes for that drug and company at
\* reference_date = now; none is replaced by the constant 0.
C24_ScoringRowsAsBuilt ==
    Scored =>
      \A k \in 1..Len(pred_features) : \A c \in BuiltColumns :
        pred_features[k][c] =
            FeatureVector(ObservationNow(k), shortage_df, enforcement_df)[c]

HasEvent(drug, company) ==
    \E i \in 1..Len(shortage_df) :
        /\ shortage_df[i].generic_name = drug
        /\ shortage_df[i].company_name = company

OnlyDrugOfFilter ==
    call_args.drug_name # NULL =>
        IF \E i \in 1..Len(shortage_df) :
              shortage_df[i].generic_name = call_args.drug_name
        THEN \A k \in 1..Len(predictions.rows) :
                predictions.rows[k].drug_name = call_args.drug_name
        ELSE predictions.returned = "None"

\* C25: with a company_name filter every returned row is a drug that has a
\* shortage event of that company; with a drug_name filter the result holds
\* that drug only, and is None when the drug has no shortage event.
C25_FiltersRestrict ==
    (pc = "trained" /\ call_args # NoCall) =>
      /\ call_args.company_name # NULL =>
            \A k \in 1..Len(predictions.rows) :
                HasEvent(predictions.rows[k].drug_name, call_args.company_name)
      /\ OnlyDrugOfFilter

(***************************************************************************)
(* The negative examples of the label construction                         *)
(***************************************************************************)
Followed(o) ==
    \E i \in EventsOf(o.drug_name) :
        /\ DateOf(i) > o.reference_date
        /\ DateOf(i) <= o.reference_date + HorizonDays

EngineerCompleted == pc \in {"featured", "prepared", "prepare_failed"}

\* C23: an event whose initial_posting_date is missing makes
\* create_target_variable or engineer_features raise: no run of the two
\* completes with a FeatureVector for an observation without a date.
C23_MissingDateFailsFast ==
    EngineerCompleted =>
      \A k \in 1..Len(features_df) : target_df[k].reference_date # NaT

EngineerReturned == pc \in {"featured", "features_failed"}

\* C28: engineer_features completes on every table of observations and
\* yields one FeatureVector per observation, in the same order, also for
\* observations whose company_name or therapeutic_category is null.
C28_OneVectorPerObservation ==
    EngineerReturned =>
      /\ pc = "featured"
      /\ Len(features_df) = Len(target_df)
      /\ \A k \in 1..Len(target_df) :
            /\ features_df[k].drug_name = target_df[k].drug_name
            /\ features_df[k].target = target_df[k].future_shortage

(***************************************************************************)
(* Properties of a shared predictor                                        *)
(***************************************************************************)
\* line 423: the encoders predict_shortage_risk uses
UsedEncoders == {"drug_name", "company_name"}

\* C26: a predict_shortage_risk call that runs while prepare_for_modeling and
\* train_models run on the same predictor never works with a mix of old and
\* new fitted parts: the model it scores with was fitted on the codes of the
\* encoders it encodes its rows with.
C26_NoMixedRead ==
    (scoring.at = "done" /\ scoring.best_model # NULL) =>
        \A col \in UsedEncoders :
            scoring.model_encoders[col] = scoring.encoders[col]


(***************************************************************************)
(* Properties of the ingest scripts                                        *)
(***************************************************************************)
\* the call reached the database load: load_to_database with credentials
Loaded == ingest_args.load_to_database /\ ingest_args.credentials

\* where a call can raise
RaisedAt == {"raised_meta", "raised_batch", "raised_csv", "raised_connect",
             "raised_create", "raised_prepare", "raised_delete", "raised_insert"}

\* C29: insert_data_to_database replaces the table and is not atomic.  After
\* a normal return the table holds exactly the rows of the prepared frame and
\* none of the previous rows; the DELETE is committed before the insert
\* starts, so that a failed insert, raised again, leaves the table empty; and
\* once load_data_to_database has ended, by return or by raise, its
\* connection is not open.
C29_ReplacementNotAtomic ==
    /\ (ingest_at = "returned" /\ Loaded) =>
           /\ db_table = prepared_df
           /\ db_table \cap ingest_args.previous = {}
    /\ ingest_at \in {"cleared", "raised_insert"} => db_table = {}
    /\ ingest_at \in RaisedAt \cup {"returned"} => db_conn # "open"

\* a failed insert over a table that had rows: old and new rows are gone
C29_Witness ==
    /\ ingest_at = "raised_insert"
    /\ ingest_args.previous # {}
    /\ prepared_df # {}
    /\ db_table = {}
    /\ db_conn = "closed"

\* the multiples of the batch size below n
OffsetsBelow(n) == {m \in 0..n : m % BatchSize = 0 /\ m < n}

\* the loop over the batches is over
LoopDone == ingest_at \notin {"idle", "called", "fetching", "raised_meta",
                              "raised_batch"}

\* C30: after the metadata request the batches are fetched at the multiples
\* of 100 below the reported total, ascending and each once; a failed request
\* ends the call with neither the CSV file written nor the database touched;
\* and with save_to_csv the CSV file is written before the database is
\* connected to, so that it exists whenever a database step raises.
C30_BatchesThenCsvThenDatabase ==
    LET skips == BatchSkips(requests)
    IN  /\ Len(requests) > 0 => requests[1] = [limit |-> 1, skip |-> 0]
        /\ \A k \in 1..Len(skips) :
             /\ skips[k] \in OffsetsBelow(total)
             /\ k > 1 => skips[k] > skips[k - 1]
        /\ LoopDone => {skips[k] : k \in 1..Len(skips)} = OffsetsBelow(total)
        /\ ingest_at \in {"raised_meta", "raised_batch"} =>
             /\ ~csv_file.written
             /\ db_conn = "none"
             /\ db_table = ingest_args.previous
        /\ (ingest_args.save_to_csv /\ db_conn # "none") =>
             /\ csv_file.written
             /\ csv_file.rows = records
        /\ (ingest_args.save_to_csv /\ Loaded /\ ingest_at = "raised_connect") =>
             csv_file.written

\* two batches fetched, the CSV file saved, then the connection fails
C30_Witness ==
    /\ ingest_at = "raised_connect"
    /\ total = BatchSize + 1
    /\ BatchSkips(requests) = <<0, BatchSize>>
    /\ csv_file = [written |-> TRUE, rows |-> 1..(BatchSize + 1)]
    /\ db_table = ingest_args.previous
====
